---- MODULE Spec2Model ----
(***************************************************************************)
(* Model of common/transport/src/session.rs: the process-wide session      *)
(* registry SESSIONS, the identifier counter SESSION_COUNTER, the two      *)
(* establishment flows (Session::from_url, Session::from_socket), the mode *)
(* switch and the mode-dispatching message transport.                      *)
(*                                                                         *)
(* One process is modelled, with NumThreads threads calling into the       *)
(* module.  Every socket c of Conns connects the process to one remote     *)
(* peer; the peer is an endpoint of the same kind (it has an encryption    *)
(* mode and sends and receives through the same dispatch), driven by the   *)
(* environment.                                                            *)
(***************************************************************************)
EXTENDS Integers, Sequences, FiniteSets, TLC

\* ---------------------------------------------------------------- bounds
NumThreads == 2
MaxConn == 2
MaxInFlight == 2
MaxCalls == 4
MaxPeerOps == 1
\* The width of SessionId and of the counter: 32 in the program (AtomicU32),
\* scaled down here, TLC's integers being narrower than 2^32.
CounterBits == 3

\* ------------------------------------------------------- program constants
CounterMod == 2 ^ CounterBits
AttestationListLen == 3

Threads == 1 .. NumThreads
Conns == 1 .. MaxConn
NoThread == 0
NoSocket == 0
NoId == CounterMod
Payloads == { <<42>>, <<7, 5>> }
NoData == << >>

\* enum EncryptionMode
EncryptionMode == { "Tls", "Plaintext" }

VARIABLES
    SESSIONS,         \* HashMap<SessionId, Session> behind the mutex
    SESSION_COUNTER,  \* AtomicU32
    lock,             \* thread holding the SESSIONS mutex, or NoThread
    th,               \* per thread: position in the current call and its locals
    net,              \* per socket: ownership, stream contents, remote peer
    pending,          \* history: payloads handed to a send and not yet received
    returned,         \* history: ids handed back by successful establishments
    last_mode,        \* history: per id, the mode most recently given to it
    used              \* calls made by the threads, operations made by the peers

vars == << SESSIONS, SESSION_COUNTER, lock, th, net, pending, returned,
           last_mode, used >>

\* ------------------------------------------------------------ message codecs
\* crate::tls and crate::tcp are not part of session.rs; both length-frame the
\* serialized payload, tls inside the secure channel, tcp on the raw stream.
CipherKey == 100

Serialize(data) == << Len(data) >> \o data

Deserialize(bytes) ==
    IF Len(bytes) >= 1 /\ bytes[1] = Len(bytes) - 1
    THEN [ok |-> TRUE, data |-> SubSeq(bytes, 2, Len(bytes))]
    ELSE [ok |-> FALSE, data |-> NoData]

Protect(bytes) == [i \in 1 .. Len(bytes) |-> bytes[i] + CipherKey]

Unprotect(bytes) == [i \in 1 .. Len(bytes) |-> bytes[i] - CipherKey]

tls_send_message(data) == [codec |-> "tls", bytes |-> Protect(Serialize(data))]

tcp_send_message(data) == [codec |-> "tcp", bytes |-> Serialize(data)]

tls_receive_message(frame) ==
    IF frame.codec = "tls"
    THEN Deserialize(Unprotect(frame.bytes))
    ELSE [ok |-> FALSE, data |-> NoData]

tcp_receive_message(frame) ==
    IF frame.codec = "tcp"
    THEN Deserialize(frame.bytes)
    ELSE [ok |-> FALSE, data |-> NoData]

\* ------------------------------------------------------------------ dispatch
\* (mutant) the arms of the match exchanged
ReceiveDispatchSwapped(mode, frame) ==
    IF mode = "Tls" THEN tcp_receive_message(frame) ELSE tls_receive_message(frame)

\* match s.encryption_mode { Tls => tls::.., Plaintext => tcp::..(io_mut()) }
SendDispatch(mode, data) ==
    IF mode = "Tls" THEN tls_send_message(data) ELSE tcp_send_message(data)

ReceiveDispatch(mode, frame) ==
    IF mode = "Tls" THEN tls_receive_message(frame) ELSE tcp_receive_message(frame)

CodecOf(mode) == IF mode = "Tls" THEN "tls" ELSE "tcp"

\* ---------------------------------------------------------------- the state
\* the ids the counter can hand out within the bounds: each is absent from the
\* registry before its insertion, and for ever when its establishment fails
IdArgs == 0 .. MaxConn - 1

IdleThread ==
    [ pc |-> "idle", op |-> "none", socket |-> NoSocket, session_id |-> NoId,
      arg_id |-> NoId, arg_mode |-> "Tls", data |-> NoData, mode |-> "Tls",
      status |-> "none", result |-> NoData,
      connect |-> "none", veraison |-> "none", config |-> "none",
      handshake |-> "none", parsec |-> "none", destroy |-> "none",
      seen |-> {}, expect |-> NoData, matched |-> FALSE ]

FreshSocket ==
    [ owner |-> "none", up |-> << >>, down |-> << >>, peer_open |-> TRUE,
      established |-> FALSE ]

Init ==
    /\ SESSIONS = << >>
    /\ SESSION_COUNTER = 0
    /\ lock = NoThread
    /\ th = [t \in Threads |-> IdleThread]
    /\ net = [c \in Conns |-> FreshSocket]
    /\ pending = [up |-> [id \in IdArgs |-> << >>], down |-> [c \in Conns |-> << >>]]
    /\ returned = {}
    /\ last_mode = [id \in IdArgs |-> "none"]
    /\ used = [calls |-> 0, peer |-> 0]

\* a thread enters one of the public functions
Call ==
    /\ used.calls < MaxCalls
    /\ used' = [used EXCEPT !.calls = @ + 1]

\* a remote peer acts on its end of a stream
PeerOp ==
    /\ used.peer < MaxPeerOps
    /\ used' = [used EXCEPT !.peer = @ + 1]

Present(id) == id \in DOMAIN SESSIONS

\* (mutant) an entry of the same key kept, as by entry(id).or_insert(..)
HashMapInsertIfAbsent(map, id, session) ==
    [k \in (DOMAIN map) \cup {id} |-> IF k \in DOMAIN map THEN map[k] ELSE session]

\* (mutant) the map emptied before the entry is added
HashMapInsertAlone(map, id, session) == [k \in {id} |-> session]

\* HashMap::insert: adds the entry, replacing an entry of the same key
HashMapInsert(map, id, session) ==
    [k \in (DOMAIN map) \cup {id} |-> IF k = id THEN session ELSE map[k]]

\* (mutant) a plain load in place of the fetch-and-add
FetchAddStuck(counter) == counter

\* AtomicU32::fetch_add(1): the new value of the counter
FetchAdd(counter) == (counter + 1) % CounterMod

\* (mutant) the registry reached without mutual exclusion
CanLockAlways == TRUE

\* Mutex::lock succeeds for a thread when no thread holds the mutex
CanLock == lock = NoThread

\* --------------------------------------------------- outcomes of fallible calls
\* Each fallible call of an establishment flow has an outcome ok \in BOOLEAN
\* chosen by the environment; these give the status the flow continues with.
Outcome(ok) == IF ok THEN "ok" ELSE "failed"

\* TcpStream::connect(..).map_err(..)?
ConnectResult(ok) == IF ok THEN "Ok" ELSE "ConnectionError"

\* tls_server::init_veraison_session(..);   the call's outcome is not inspected
VeraisonResult(ok) == "Ok"

\* (mutant) the outcome of the configuration generation dropped
ConfigResultIgnored(ok) == "Ok"

\* tls_server::generate_tls_server_config()? / tls_client::generate_tls_client_config()?
ConfigResult(ok) == IF ok THEN "Ok" ELSE "ConfigGenerationError"

\* (mutant) the outcome of establish dropped instead of propagated
EstablishResultIgnored(ok) == "Ok"

\* tls_context.establish(socket, None)?
EstablishResult(ok) == IF ok THEN "Ok" ELSE "HandshakeError"

\* BasicClient::new_naked()?  set_default_auth(..)?  set_default_provider()?
ParsecSteps == { "new_naked", "set_default_auth", "set_default_provider" }

ParsecClientResult(failed_at) == IF failed_at = "ok" THEN "Ok" ELSE "KeystoreError"

\* (mutant) the outcome of psa_destroy_key propagated with `?`
DestroyKeyResultPropagated(ok) == IF ok THEN "Ok" ELSE "KeystoreError"

\* let _ = client.psa_destroy_key(..);   the outcome is discarded
DestroyKeyResult(ok) == "Ok"

\* a thread's locals after a fallible call: on to next_pc, or out with the error
Proceed(t, locals, status, next_pc) ==
    IF status = "Ok"
    THEN [th EXCEPT ![t] = [locals EXCEPT !.pc = next_pc]]
    ELSE [th EXCEPT ![t] = [locals EXCEPT !.pc = "done", !.status = status]]

\* the socket (and the context that owns it) is dropped when the call errors out
SocketAfter(c, status) ==
    IF status = "Ok" THEN [net EXCEPT ![c].owner = "flow"]
                     ELSE [net EXCEPT ![c].owner = "dropped"]

\* --------------------------------------------------------- Session::from_url
FromUrlConnect(t) ==
    /\ th[t].pc = "idle"
    /\ Call
    /\ \E c \in Conns, ok \in BOOLEAN :
         /\ net[c].owner = "none"
         /\ LET locals == [IdleThread EXCEPT !.op = "from_url", !.socket = c,
                               !.seen = returned, !.connect = Outcome(ok)]
                status == ConnectResult(ok)
            IN  /\ th' = Proceed(t, locals, status, "url_veraison")
                /\ net' = SocketAfter(c, status)
    /\ UNCHANGED << SESSIONS, SESSION_COUNTER, lock, pending, returned, last_mode >>

FromUrlInitVeraison(t) ==
    /\ th[t].pc = "url_veraison"
    /\ \E ok \in BOOLEAN :
         LET locals == [th[t] EXCEPT !.veraison = Outcome(ok)]
             status == VeraisonResult(ok)
         IN  /\ th' = Proceed(t, locals, status, "url_config")
             /\ net' = SocketAfter(th[t].socket, status)
    /\ UNCHANGED << SESSIONS, SESSION_COUNTER, lock, pending, returned, last_mode, used >>

FromUrlConfig(t) ==
    /\ th[t].pc = "url_config"
    /\ \E ok \in BOOLEAN :
         LET locals == [th[t] EXCEPT !.config = Outcome(ok)]
             status == ConfigResult(ok)
         IN  /\ th' = Proceed(t, locals, status, "url_establish")
             /\ net' = SocketAfter(th[t].socket, status)
    /\ UNCHANGED << SESSIONS, SESSION_COUNTER, lock, pending, returned, last_mode, used >>

\* (mutant) the handshake run inside the registry lock
EstablishUnderLock(t, next_pc) ==
    /\ CanLock
    /\ \E ok \in BOOLEAN :
        LET c == th[t].socket
            status == EstablishResult(ok)
            locals == [th[t] EXCEPT !.handshake = Outcome(ok)]
        IN  /\ ok => net[c].peer_open
            /\ th' = Proceed(t, locals, status, next_pc)
            /\ net' = [SocketAfter(c, status) EXCEPT ![c].established = ok]

\* Context::establish: blocks on the peer; succeeds only against a live peer
Establish(t, next_pc) ==
    \E ok \in BOOLEAN :
        LET c == th[t].socket
            status == EstablishResult(ok)
            locals == [th[t] EXCEPT !.handshake = Outcome(ok)]
        IN  /\ ok => net[c].peer_open
            /\ th' = Proceed(t, locals, status, next_pc)
            /\ net' = [SocketAfter(c, status) EXCEPT ![c].established = ok]

FromUrlEstablish(t) ==
    /\ th[t].pc = "url_establish"
    /\ Establish(t, "url_fetch_add")
    /\ UNCHANGED << SESSIONS, SESSION_COUNTER, lock, pending, returned, last_mode, used >>

\* let session_id = SESSION_COUNTER.fetch_add(1, Ordering::SeqCst);
AllocateId(t, next_pc) ==
    /\ th' = [th EXCEPT ![t].session_id = SESSION_COUNTER, ![t].pc = next_pc]
    /\ SESSION_COUNTER' = FetchAdd(SESSION_COUNTER)
    /\ UNCHANGED << SESSIONS, lock, net, pending, returned, last_mode, used >>

\* (mutant) Ok(session_id) returned with the insertion left out
InsertSessionSkipped(t, responder_context) ==
    /\ th' = [th EXCEPT ![t].pc = "done", ![t].status = "Ok"]
    /\ UNCHANGED << SESSIONS, SESSION_COUNTER, lock, net, pending, returned,
                    last_mode, used >>

\* SESSIONS.lock().map_err(..)?.insert(session_id, Self { .. });  Ok(session_id)
InsertSession(t, responder_context) ==
    /\ CanLock
    /\ SESSIONS' = HashMapInsert(SESSIONS, th[t].session_id,
                       [ tls_context |-> th[t].socket,
                         encryption_mode |-> "Tls",
                         responder_context |-> responder_context ])
    /\ net' = [net EXCEPT ![th[t].socket].owner = "session"]
    /\ th' = [th EXCEPT ![t].pc = "done", ![t].status = "Ok"]
    /\ last_mode' = [id \in IdArgs |->
                        IF id = th[t].session_id THEN "Tls" ELSE last_mode[id]]
    /\ UNCHANGED << SESSION_COUNTER, lock, pending, returned, used >>

FromUrlFetchAdd(t) ==
    /\ th[t].pc = "url_fetch_add"
    /\ AllocateId(t, "url_insert")

\* (mutant) a role context given to the initiator's session
DefaultResponderContext ==
    << [ key_handle |-> 0,
         client_attestation_type_list |-> [i \in 1 .. 3 |-> 0] ] >>

\* responder_context: None
NoResponderContext == << >>

FromUrlInsert(t) ==
    /\ th[t].pc = "url_insert"
    /\ InsertSession(t, NoResponderContext)

\* ------------------------------------------------------ Session::from_socket
\* what generate_tls_client_config yields besides the configuration
KeyHandle(c) == c

ClientAttestationTypeList == [i \in 1 .. AttestationListLen |-> i]

\* responder_context: Some(ResponderContext { .. })
ResponderContext(c) ==
    << [ key_handle |-> KeyHandle(c),
         client_attestation_type_list |-> ClientAttestationTypeList ] >>

FromSocketConfig(t) ==
    /\ th[t].pc = "idle"
    /\ Call
    /\ \E c \in Conns, ok \in BOOLEAN :
         /\ net[c].owner = "none"
         /\ LET locals == [IdleThread EXCEPT !.op = "from_socket", !.socket = c,
                               !.seen = returned, !.config = Outcome(ok)]
                status == ConfigResult(ok)
            IN  /\ th' = Proceed(t, locals, status, "sock_establish")
                /\ net' = SocketAfter(c, status)
    /\ UNCHANGED << SESSIONS, SESSION_COUNTER, lock, pending, returned, last_mode >>

FromSocketEstablish(t) ==
    /\ th[t].pc = "sock_establish"
    /\ Establish(t, "sock_parsec_client")
    /\ UNCHANGED << SESSIONS, SESSION_COUNTER, lock, pending, returned, last_mode, used >>

FromSocketParsecClient(t) ==
    /\ th[t].pc = "sock_parsec_client"
    /\ \E failed_at \in ParsecSteps \cup { "ok" } :
         LET status == ParsecClientResult(failed_at)
             locals == [th[t] EXCEPT !.parsec = failed_at]
         IN  /\ th' = Proceed(t, locals, status, "sock_destroy_key")
             /\ net' = SocketAfter(th[t].socket, status)
    /\ UNCHANGED << SESSIONS, SESSION_COUNTER, lock, pending, returned, last_mode, used >>

FromSocketDestroyKey(t) ==
    /\ th[t].pc = "sock_destroy_key"
    /\ \E ok \in BOOLEAN :
         LET status == DestroyKeyResult(ok)
             locals == [th[t] EXCEPT !.destroy = Outcome(ok)]
         IN  /\ th' = Proceed(t, locals, status, "sock_fetch_add")
             /\ net' = SocketAfter(th[t].socket, status)
    /\ UNCHANGED << SESSIONS, SESSION_COUNTER, lock, pending, returned, last_mode, used >>

FromSocketFetchAdd(t) ==
    /\ th[t].pc = "sock_fetch_add"
    /\ AllocateId(t, "sock_insert")

FromSocketInsert(t) ==
    /\ th[t].pc = "sock_insert"
    /\ InsertSession(t, ResponderContext(th[t].socket))

\* --------------------------------------------- Session::set_encryption_mode
\* The arguments of a call of set_encryption_mode, send_message or
\* receive_message are first read under the lock: they are drawn there.
CallSetEncryptionMode(t) ==
    /\ th[t].pc = "idle"
    /\ Call
    /\ th' = [th EXCEPT ![t] = [IdleThread EXCEPT !.pc = "mode_lock",
                                    !.op = "set_encryption_mode"]]
    /\ UNCHANGED << SESSIONS, SESSION_COUNTER, lock, net, pending, returned, last_mode >>

\* (mutant) the assignment left out
SetModeDropped(session, mode) == session

\* (mutant) the session rebuilt by the switch, its role context lost
SetModeResetContext(session, mode) ==
    [session EXCEPT !.encryption_mode = mode, !.responder_context = << >>]

\* s.encryption_mode = encryption_mode;
SetMode(session, mode) == [session EXCEPT !.encryption_mode = mode]

\* lock, get_mut, assign, unlock: nothing blocks between lock and unlock
SetEncryptionMode(t) ==
    /\ th[t].pc = "mode_lock"
    /\ CanLock
    /\ \E id \in IdArgs, mode \in EncryptionMode :
         LET locals == [th[t] EXCEPT !.arg_id = id, !.arg_mode = mode, !.pc = "done"]
         IN  IF Present(id)
             THEN /\ SESSIONS' = [SESSIONS EXCEPT ![id] = SetMode(@, mode)]
                  /\ last_mode' = [last_mode EXCEPT ![id] = mode]
                  /\ th' = [th EXCEPT ![t] = [locals EXCEPT !.status = "Ok"]]
             ELSE /\ UNCHANGED << SESSIONS, last_mode >>
                  /\ th' = [th EXCEPT ![t] =
                               [locals EXCEPT !.status = "SessionNotFound"]]
    /\ UNCHANGED << SESSION_COUNTER, lock, net, pending, returned, used >>

\* ------------------------------------- the lookup of send/receive_message
\* (mutant) one stream shared by every session
SharedStream(id) == SESSIONS[CHOOSE k \in DOMAIN SESSIONS : TRUE].tls_context

\* the stream the session's context owns (io_mut() of an established context)
SessionStream(id) == SESSIONS[id].tls_context

\* (mutant) an unknown id skipped in silence instead of reported
LockAndLookupSilent(t, id, data, io_pc) ==
    /\ CanLock
    /\ LET locals == [th[t] EXCEPT !.arg_id = id, !.data = data]
       IN  IF Present(id)
           THEN /\ lock' = t
                /\ th' = [th EXCEPT ![t] =
                             [locals EXCEPT !.pc = io_pc,
                                            !.socket = SessionStream(id),
                                            !.mode = SESSIONS[id].encryption_mode]]
           ELSE /\ lock' = lock
                /\ th' = [th EXCEPT ![t] = [locals EXCEPT !.pc = "done", !.status = "Ok"]]
    /\ UNCHANGED << SESSIONS, SESSION_COUNTER, net, pending, returned, last_mode, used >>

\* (mutant) the guard dropped after the lookup, the I/O left outside the lock
LockAndLookupUnlocked(t, id, data, io_pc) ==
    /\ CanLock
    /\ LET locals == [th[t] EXCEPT !.arg_id = id, !.data = data]
       IN  IF Present(id)
           THEN th' = [th EXCEPT ![t] =
                          [locals EXCEPT !.pc = io_pc,
                                         !.socket = SessionStream(id),
                                         !.mode = SESSIONS[id].encryption_mode]]
           ELSE th' = [th EXCEPT ![t] =
                          [locals EXCEPT !.pc = "done", !.status = "SessionNotFound"]]
    /\ UNCHANGED << SESSIONS, SESSION_COUNTER, lock, net, pending, returned,
                    last_mode, used >>

\* SESSIONS.lock()..; s.get_mut(&session_id).ok_or(..)?; match s.encryption_mode
\* The guard lives to the end of the function: a present id keeps the mutex
\* through the I/O, on the session and in the mode found here.
LockAndLookup(t, id, data, io_pc) ==
    /\ CanLock
    /\ LET locals == [th[t] EXCEPT !.arg_id = id, !.data = data]
       IN  IF Present(id)
           THEN /\ lock' = t
                /\ th' = [th EXCEPT ![t] =
                             [locals EXCEPT !.pc = io_pc,
                                            !.socket = SessionStream(id),
                                            !.mode = SESSIONS[id].encryption_mode]]
           ELSE /\ lock' = lock
                /\ th' = [th EXCEPT ![t] =
                             [locals EXCEPT !.pc = "done", !.status = "SessionNotFound"]]
    /\ UNCHANGED << SESSIONS, SESSION_COUNTER, net, pending, returned, last_mode, used >>

\* the function returns: the guard is dropped
Finish(t, status) ==
    /\ th' = [th EXCEPT ![t].pc = "done", ![t].status = status]
    /\ lock' = NoThread

\* ----------------------------------------------------- Session::send_message
CallSendMessage(t) ==
    /\ th[t].pc = "idle"
    /\ Call
    /\ th' = [th EXCEPT ![t] = [IdleThread EXCEPT !.pc = "send_lock",
                                    !.op = "send_message"]]
    /\ UNCHANGED << SESSIONS, SESSION_COUNTER, lock, net, pending, returned, last_mode >>

SendLock(t) ==
    /\ th[t].pc = "send_lock"
    /\ \E id \in IdArgs, data \in Payloads : LockAndLookup(t, id, data, "send_io")

\* the stream takes the frame at its tail
StreamWrite(stream, frame) == Append(stream, frame)

\* the blocking write: it waits while the peer's buffer is full, and fails
\* when the peer has closed the stream
SendIo(t) ==
    /\ th[t].pc = "send_io"
    /\ lock = t
    /\ LET c == th[t].socket
       IN  IF net[c].peer_open
           THEN /\ Len(net[c].up) < MaxInFlight
                /\ net' = [net EXCEPT ![c].up =
                              StreamWrite(@, SendDispatch(th[t].mode, th[t].data))]
                /\ pending' = [pending EXCEPT !.up[th[t].arg_id] = Append(@, th[t].data)]
                /\ Finish(t, "Ok")
           ELSE /\ UNCHANGED << net, pending >>
                /\ Finish(t, "IoError")
    /\ UNCHANGED << SESSIONS, SESSION_COUNTER, returned, last_mode, used >>

\* -------------------------------------------------- Session::receive_message
CallReceiveMessage(t) ==
    /\ th[t].pc = "idle"
    /\ Call
    /\ th' = [th EXCEPT ![t] = [IdleThread EXCEPT !.pc = "recv_lock",
                                    !.op = "receive_message"]]
    /\ UNCHANGED << SESSIONS, SESSION_COUNTER, lock, net, pending, returned, last_mode >>

ReceiveLock(t) ==
    /\ th[t].pc = "recv_lock"
    /\ \E id \in IdArgs : LockAndLookup(t, id, NoData, "recv_io")

\* the oldest frame of the stream, and the stream after it was read
StreamRead(stream) == [frame |-> Head(stream), rest |-> Tail(stream)]

\* the blocking read: it waits for a frame while the peer is there, and fails
\* at the end of a stream the peer has closed
ReceiveIo(t) ==
    /\ th[t].pc = "recv_io"
    /\ lock = t
    /\ LET c == th[t].socket
       IN  IF net[c].down # << >>
           THEN LET rd == StreamRead(net[c].down)
                    got == ReceiveDispatch(th[t].mode, rd.frame)
                IN  /\ net' = [net EXCEPT ![c].down = rd.rest]
                    /\ pending' = [pending EXCEPT !.down[c] = Tail(@)]
                    /\ th' = [th EXCEPT ![t].pc = "done",
                                 ![t].status = IF got.ok THEN "Ok" ELSE "SerializationError",
                                 ![t].result = got.data,
                                 ![t].expect = Head(pending.down[c]),
                                 ![t].matched = (rd.frame.codec = CodecOf(th[t].mode))]
                    /\ lock' = NoThread
           ELSE /\ ~ net[c].peer_open
                /\ UNCHANGED << net, pending >>
                /\ Finish(t, "IoError")
    /\ UNCHANGED << SESSIONS, SESSION_COUNTER, returned, last_mode, used >>

\* ------------------------------------------------------- the call returns
IsEstablishment(op) == op \in { "from_url", "from_socket" }

Return(t) ==
    /\ th[t].pc = "done"
    /\ th' = [th EXCEPT ![t] = IdleThread]
    /\ returned' = IF IsEstablishment(th[t].op) /\ th[t].status = "Ok"
                   THEN returned \cup { th[t].session_id }
                   ELSE returned
    /\ UNCHANGED << SESSIONS, SESSION_COUNTER, lock, net, pending, last_mode, used >>

\* --------------------------------------------------------- the remote peer
\* The peer of an established session runs the same transport on its end of the
\* stream: it sends by the encryption mode its own session is in at that time,
\* reads what the process sent, and may close the stream.
PeerSend(c) ==
    /\ PeerOp
    /\ net[c].established
    /\ net[c].peer_open
    /\ Len(net[c].down) < MaxInFlight
    /\ \E mode \in EncryptionMode, data \in Payloads :
         /\ net' = [net EXCEPT ![c].down = StreamWrite(@, SendDispatch(mode, data))]
         /\ pending' = [pending EXCEPT !.down[c] = Append(@, data)]
    /\ UNCHANGED << SESSIONS, SESSION_COUNTER, lock, th, returned, last_mode >>

\* the ids whose session owns stream c
OwnersOf(c) == { id \in DOMAIN SESSIONS : SESSIONS[id].tls_context = c }

PeerReceive(c) ==
    /\ PeerOp
    /\ net[c].peer_open
    /\ net[c].up # << >>
    /\ net' = [net EXCEPT ![c].up = StreamRead(@).rest]
    /\ pending' = [pending EXCEPT !.up =
                      [id \in IdArgs |-> IF id \in OwnersOf(c) /\ pending.up[id] # << >>
                                         THEN Tail(pending.up[id])
                                         ELSE pending.up[id]]]
    /\ UNCHANGED << SESSIONS, SESSION_COUNTER, lock, th, returned, last_mode >>

PeerClose(c) ==
    /\ PeerOp
    /\ net[c].established
    /\ net[c].peer_open
    /\ net' = [net EXCEPT ![c].peer_open = FALSE]
    /\ UNCHANGED << SESSIONS, SESSION_COUNTER, lock, th, pending, returned, last_mode >>

\* ------------------------------------------------------- the specification
Next ==
    \/ \E t \in Threads : FromUrlConnect(t)
    \/ \E t \in Threads : FromUrlInitVeraison(t)
    \/ \E t \in Threads : FromUrlConfig(t)
    \/ \E t \in Threads : FromUrlEstablish(t)
    \/ \E t \in Threads : FromUrlFetchAdd(t)
    \/ \E t \in Threads : FromUrlInsert(t)
    \/ \E t \in Threads : FromSocketConfig(t)
    \/ \E t \in Threads : FromSocketEstablish(t)
    \/ \E t \in Threads : FromSocketParsecClient(t)
    \/ \E t \in Threads : FromSocketDestroyKey(t)
    \/ \E t \in Threads : FromSocketFetchAdd(t)
    \/ \E t \in Threads : FromSocketInsert(t)
    \/ \E t \in Threads : CallSetEncryptionMode(t)
    \/ \E t \in Threads : SetEncryptionMode(t)
    \/ \E t \in Threads : CallSendMessage(t)
    \/ \E t \in Threads : SendLock(t)
    \/ \E t \in Threads : SendIo(t)
    \/ \E t \in Threads : CallReceiveMessage(t)
    \/ \E t \in Threads : ReceiveLock(t)
    \/ \E t \in Threads : ReceiveIo(t)
    \/ \E t \in Threads : Return(t)
    \/ \E c \in Conns : PeerSend(c)
    \/ \E c \in Conns : PeerReceive(c)
    \/ \E c \in Conns : PeerClose(c)

Spec == Init /\ [][Next]_vars

\* --------------------------------------------- the counter about to wrap
\* The process after CounterMod - 1 successful establishments, every call
\* returned: the ids 0 .. CounterMod - 2 were handed out and, nothing removing
\* entries, are all in the registry, each session on a socket of its own; the
\* next fetch_add hands out the last id and wraps the counter.  Of the calls
\* the bound allows, one counts as made.
OldIds == 0 .. CounterMod - 2

OldConn(id) == MaxConn + 1 + id

OldConns == { OldConn(id) : id \in OldIds }

OldSocket ==
    [ owner |-> "session", up |-> << >>, down |-> << >>, peer_open |-> TRUE,
      established |-> TRUE ]

WrapInit ==
    /\ SESSIONS = [id \in OldIds |->
                      [ tls_context |-> OldConn(id),
                        encryption_mode |-> "Tls",
                        responder_context |-> NoResponderContext ]]
    /\ SESSION_COUNTER = CounterMod - 1
    /\ lock = NoThread
    /\ th = [t \in Threads |-> IdleThread]
    /\ net = [c \in Conns \cup OldConns |->
                 IF c \in Conns THEN FreshSocket ELSE OldSocket]
    /\ pending = [up |-> [id \in IdArgs |-> << >>],
                  down |-> [c \in Conns \cup OldConns |-> << >>]]
    /\ returned = OldIds
    /\ last_mode = [id \in IdArgs |-> "Tls"]
    /\ used = [calls |-> 1, peer |-> 0]

SpecWrap == WrapInit /\ [][Next]_vars

\* ================================================================ the claims
Done(t) == th[t].pc = "done"

\* the registry holds an entry for the stream of thread t's establishment
EntryFor(t) == \E id \in DOMAIN SESSIONS : SESSIONS[id].tls_context = th[t].socket

\* one of the fallible steps of t's establishment failed
StepFailed(t) ==
    \/ th[t].connect = "failed"
    \/ th[t].veraison = "failed"
    \/ th[t].config = "failed"
    \/ th[t].handshake = "failed"

\* C1 (as claimed): an establishment call in which connect, attestation-service
\* initialization, configuration generation or the handshake failed has
\* returned an error, and the registry holds no entry for it.
C1_FailedEstablishmentLeavesNoEntry ==
    \A t \in Threads :
        (Done(t) /\ IsEstablishment(th[t].op) /\ StepFailed(t))
            => (th[t].status # "Ok" /\ ~ EntryFor(t))

\* C7 (as claimed): when the attestation-verification service cannot be
\* initialized, from_url stops there with AttestationInitError: no
\* configuration generation, no handshake, no id, no registry entry.
C7_AttestationInitFailureStopsFlow ==
    \A t \in Threads :
        th[t].veraison = "failed"
            => /\ Done(t)
               /\ th[t].status = "AttestationInitError"
               /\ th[t].config = "none"
               /\ th[t].handshake = "none"
               /\ th[t].session_id = NoId
               /\ ~ EntryFor(t)

\* C8 (as claimed): after a successful handshake in from_socket no failure of
\* the key-deletion step, the keystore being unreachable included, keeps the
\* establishment from succeeding.
C8_KeyDeletionStepNeverFailsEstablishment ==
    \A t \in Threads :
        (Done(t) /\ th[t].op = "from_socket" /\ th[t].handshake = "ok")
            => th[t].status = "Ok"

\* C8 (amended): a failure of the psa_destroy_key call itself is discarded: the
\* flow goes on to allocate an id and insert the session, and returns Ok.  A
\* failure while setting up the keystore client (new_naked, set_default_auth,
\* set_default_provider) is returned to the caller: no id, no registry entry.
C8_DestroyKeyFailureDiscarded ==
    \A t \in Threads :
        /\ th[t].destroy = "failed"
               => /\ th[t].pc \in { "sock_fetch_add", "sock_insert", "done" }
                  /\ Done(t) => th[t].status = "Ok"
        /\ (Done(t) /\ th[t].op = "from_socket" /\ th[t].parsec = "ok")
               => /\ th[t].status = "Ok"
                  /\ Present(th[t].session_id)
                  /\ SESSIONS[th[t].session_id].tls_context = th[t].socket
        /\ th[t].parsec \in ParsecSteps
               => /\ Done(t)
                  /\ th[t].status = "KeystoreError"
                  /\ th[t].session_id = NoId
                  /\ ~ EntryFor(t)

C8_Witness ==
    \E t \in Threads :
        /\ Done(t)
        /\ th[t].op = "from_socket"
        /\ th[t].destroy = "failed"
        /\ th[t].status = "Ok"
        /\ Present(th[t].session_id)

\* C2 (as claimed): every id of the registry refers to a session whose
\* handshake completed and whose channel is live.
C2_RegistryEntriesLive ==
    \A id \in DOMAIN SESSIONS :
        /\ net[SESSIONS[id].tls_context].established
        /\ net[SESSIONS[id].tls_context].peer_open

\* C2 (amended): every id of the registry refers to a session whose handshake
\* completed; an entry stays in the registry when its channel stops being
\* live, since nothing removes entries.
C2_RegistryEntriesHandshakeCompleted ==
    /\ \A id \in DOMAIN SESSIONS :
           /\ net[SESSIONS[id].tls_context].established
           /\ net[SESSIONS[id].tls_context].owner = "session"
    /\ \A c \in Conns : net[c].owner = "session" => OwnersOf(c) # {}

C2_Witness ==
    \E id \in DOMAIN SESSIONS :
        /\ net[SESSIONS[id].tls_context].established
        /\ ~ net[SESSIONS[id].tls_context].peer_open

\* the ids threads hold between the fetch_add and the return of their call
HeldIds == { th[t].session_id : t \in { u \in Threads : th[u].session_id # NoId } }

\* C3: session identifiers are distinct and increasing.  The counter starts at
\* 0 and counts the allocations; no two establishments hold or have returned
\* the same id; an establishment that started after another one returned
\* returns a greater id than that one did (no wraparound within the bounds).
C3_IdsDistinctAndIncreasing ==
    /\ \A t \in Threads :
           (Done(t) /\ IsEstablishment(th[t].op) /\ th[t].status = "Ok")
               => /\ th[t].session_id \notin returned
                  /\ \A j \in th[t].seen : j < th[t].session_id
    /\ \A t, u \in Threads :
           (t # u /\ th[t].session_id # NoId) => th[t].session_id # th[u].session_id
    /\ returned \cup HeldIds = 0 .. SESSION_COUNTER - 1

C3_Witness ==
    \E t \in Threads :
        /\ Done(t)
        /\ IsEstablishment(th[t].op)
        /\ th[t].status = "Ok"
        /\ th[t].seen # {}
        /\ th[t].session_id = 1

LockPcs == { "mode_lock", "send_lock", "recv_lock" }

\* C4: a set_encryption_mode, send_message or receive_message on an id absent
\* from the registry ends with the session-not-found error, and the step
\* changes neither the registry, the id counter, any stream nor the lock.
C4_AbsentIdFails ==
    [][ \A t \in Threads :
          (th[t].pc \in LockPcs /\ th'[t].pc # th[t].pc /\ ~ Present(th'[t].arg_id))
              => /\ th'[t].pc = "done"
                 /\ th'[t].status = "SessionNotFound"
                 /\ UNCHANGED << SESSIONS, SESSION_COUNTER, net, lock >> ]_vars

C4_Witness ==
    \E t, u \in Threads :
        /\ Done(t) /\ th[t].op = "send_message"
        /\ th[t].status = "SessionNotFound" /\ ~ Present(th[t].arg_id)
        /\ Done(u) /\ th[u].op = "set_encryption_mode"
        /\ th[u].status = "SessionNotFound" /\ ~ Present(th[u].arg_id)

\* what the codec of mode m writes for data, and reads from frame
WrittenIn(m, data) ==
    IF m = "Tls" THEN tls_send_message(data) ELSE tcp_send_message(data)

ReadIn(m, frame) ==
    IF m = "Tls" THEN tls_receive_message(frame) ELSE tcp_receive_message(frame)

\* C5: set_encryption_mode(id, m) on a present id succeeds and leaves the
\* session in mode m; every send_message or receive_message on id that takes
\* the lock afterwards, before another set_encryption_mode on id, writes or
\* reads with the codec of m: the secure-channel codec for Tls, the raw-stream
\* codec for Plaintext.
C5_DispatchFollowsLastMode ==
    [][ \A t \in Threads :
          /\ (th[t].pc = "mode_lock" /\ Done(t)' /\ Present(th'[t].arg_id))
                 => /\ th'[t].status = "Ok"
                    /\ SESSIONS'[th'[t].arg_id].encryption_mode = th'[t].arg_mode
          /\ (th[t].pc = "send_io" /\ Done(t)' /\ th'[t].status = "Ok")
                 => LET c == SESSIONS[th[t].arg_id].tls_context
                    IN  net'[c].up = Append(net[c].up,
                            WrittenIn(last_mode[th[t].arg_id], th[t].data))
          /\ (th[t].pc = "recv_io" /\ Done(t)' /\ th'[t].status # "IoError")
                 => LET c == SESSIONS[th[t].arg_id].tls_context
                        got == ReadIn(last_mode[th[t].arg_id], Head(net[c].down))
                    IN  /\ th'[t].result = got.data
                        /\ (th'[t].status = "Ok") = got.ok ]_vars

C5_Witness ==
    \E t, u \in Threads :
        /\ Done(t) /\ th[t].op = "send_message" /\ th[t].status = "Ok"
        /\ th[t].mode = "Plaintext"
        /\ Done(u) /\ th[u].op = "set_encryption_mode" /\ th[u].status = "Ok"
        /\ th[u].arg_id = th[t].arg_id /\ th[u].arg_mode = "Plaintext"

ModeOfCodec(codec) == IF codec = "tls" THEN "Tls" ELSE "Plaintext"

\* frames decode, read in the mode they were written in, to payloads, in order
DecodesTo(stream, payloads) ==
    /\ Len(stream) = Len(payloads)
    /\ \A i \in 1 .. Len(stream) :
           ReceiveDispatch(ModeOfCodec(stream[i].codec), stream[i])
               = [ok |-> TRUE, data |-> payloads[i]]

\* C6: round trip.  With the receiving end in the mode the sending end wrote
\* in, what is in flight from a session to its peer, and from the peer to the
\* session, decodes to the payloads sent, in the order they were sent; a
\* receive_message that read a frame in the mode it was written in returned the
\* oldest payload not yet received.
C6_RoundTrip ==
    /\ \A id \in DOMAIN SESSIONS :
           DecodesTo(net[SESSIONS[id].tls_context].up, pending.up[id])
    /\ \A c \in Conns : DecodesTo(net[c].down, pending.down[c])
    /\ \A t \in Threads :
           (Done(t) /\ th[t].op = "receive_message" /\ th[t].matched)
               => (th[t].status = "Ok" /\ th[t].result = th[t].expect)

C6_Witness ==
    \E t \in Threads :
        /\ Done(t) /\ th[t].op = "receive_message" /\ th[t].matched
        /\ th[t].mode = "Plaintext"
        /\ th[t].status = "Ok" /\ th[t].result \in Payloads

LockWaitPcs == LockPcs \cup { "url_insert", "sock_insert" }

IoPcs == { "send_io", "recv_io" }

\* C9: a thread inside the I/O of send_message or receive_message holds the
\* registry lock; while a thread keeps the lock, no step changes the registry
\* and every other thread that is at a set_encryption_mode, send_message,
\* receive_message or registry insertion stays where it is.
C9_LockHeldDuringIo ==
    [][ /\ \A t \in Threads : th'[t].pc \in IoPcs => lock' = t
        /\ (lock # NoThread /\ lock' = lock)
               => /\ SESSIONS' = SESSIONS
                  /\ \A u \in Threads \ { lock } :
                         th[u].pc \in LockWaitPcs => th'[u] = th[u] ]_vars

C9_Witness ==
    \E t, u \in Threads :
        /\ t # u
        /\ th[t].pc = "recv_io" /\ lock = t
        /\ net[th[t].socket].down = << >> /\ net[th[t].socket].peer_open
        /\ th[u].pc \in LockPcs
        /\ \E id \in DOMAIN SESSIONS : id # th[t].arg_id

\* C10: sends on distinct sessions do not mix.  No two sessions own the same
\* stream; the stream of a session holds exactly the frames of the payloads
\* sent on that session and not yet read by its peer, whole and in order; a
\* send_message is held up only by the lock being taken or by its own peer
\* not reading.
C10_ConcurrentSendsIntact ==
    /\ \A id1, id2 \in DOMAIN SESSIONS :
           id1 # id2 => SESSIONS[id1].tls_context # SESSIONS[id2].tls_context
    /\ \A id \in DOMAIN SESSIONS :
           LET stream == net[SESSIONS[id].tls_context].up
           IN  /\ Len(stream) = Len(pending.up[id])
               /\ \A i \in 1 .. Len(stream) :
                      stream[i] \in { WrittenIn(m, pending.up[id][i]) : m \in EncryptionMode }
    /\ \A id \in IdArgs \ DOMAIN SESSIONS : pending.up[id] = << >>
    /\ \A c \in Conns : OwnersOf(c) = {} => net[c].up = << >>
    /\ \A t \in Threads :
           /\ (th[t].pc = "send_lock" /\ lock = NoThread) => ENABLED SendLock(t)
           /\ (th[t].pc = "send_io" /\ net[th[t].socket].peer_open
                 /\ Len(net[th[t].socket].up) < MaxInFlight) => ENABLED SendIo(t)

C10_Witness ==
    \E t, u \in Threads :
        /\ Done(t) /\ th[t].op = "send_message" /\ th[t].status = "Ok"
        /\ Done(u) /\ th[u].op = "send_message" /\ th[u].status = "Ok"
        /\ th[t].arg_id # th[u].arg_id
        /\ th[t].data # th[u].data
        /\ pending.up[th[t].arg_id] = << th[t].data >>
        /\ pending.up[th[u].arg_id] = << th[u].data >>

FetchAddPcs == { "url_fetch_add", "sock_fetch_add" }

InsertPcs == { "url_insert", "sock_insert" }

\* the ids whose session owns stream c, after the step
OwnersOfNext(c) == { id \in DOMAIN SESSIONS' : SESSIONS'[id].tls_context = c }

\* C11: identifier wraparound.  fetch_add hands out the counter's value and
\* steps the counter modulo 2^CounterBits, from the greatest value to 0, the
\* flow going on to the insertion with no error.  An insertion under an id that
\* is present succeeds and replaces the entry: the key set is the same, the id
\* now refers to the new session and no id refers to the earlier session's
\* stream.  A send_message or receive_message works on the stream of the
\* session the id currently refers to, and no thread writes to or reads from a
\* stream no id refers to.
C11_WraparoundOverwrites ==
    [][ /\ \A t \in Threads :
            /\ (th[t].pc \in FetchAddPcs /\ th'[t].pc # th[t].pc)
                   => /\ th'[t].session_id = SESSION_COUNTER
                      /\ th'[t].pc \in InsertPcs
                      /\ SESSION_COUNTER' = IF SESSION_COUNTER = CounterMod - 1
                                            THEN 0 ELSE SESSION_COUNTER + 1
            /\ (th[t].pc \in InsertPcs /\ Done(t)' /\ th'[t].status = "Ok"
                  /\ Present(th[t].session_id))
                   => /\ DOMAIN SESSIONS' = DOMAIN SESSIONS
                      /\ SESSIONS'[th[t].session_id].tls_context = th[t].socket
                      /\ SESSIONS[th[t].session_id].tls_context # th[t].socket
                      /\ OwnersOfNext(SESSIONS[th[t].session_id].tls_context) = {}
            /\ (th[t].pc \in InsertPcs /\ th'[t].pc # th[t].pc)
                   => (Done(t)' /\ th'[t].status = "Ok")
            /\ th'[t].pc \in IoPcs
                   => th'[t].socket = SESSIONS'[th'[t].arg_id].tls_context
        /\ \A c \in DOMAIN net :
               (net[c].owner = "session" /\ OwnersOf(c) = {})
                   => /\ Len(net'[c].up) <= Len(net[c].up)
                      /\ Len(net'[c].down) >= Len(net[c].down) ]_vars

\* the counter has wrapped, id 0 was allocated again and its insertion replaced
\* the session of the first id 0; a send on id 0 then wrote to the new stream
C11_Witness ==
    \E t \in Threads :
        /\ SESSION_COUNTER = 1
        /\ Present(0)
        /\ SESSIONS[0].tls_context \in Conns
        /\ OwnersOf(OldConn(0)) = {}
        /\ Done(t) /\ th[t].op = "send_message" /\ th[t].status = "Ok"
        /\ th[t].arg_id = 0
        /\ net[SESSIONS[0].tls_context].up # << >>
        /\ net[OldConn(0)].up = << >>

\* C12: an establishment hands its id to the caller only after the insertion.
\* A from_url or from_socket that is returning Ok(id) has id in the registry,
\* referring to the session it established, and so has every id ever returned;
\* an id that is allocated and not in the registry is held by a flow that is
\* between its fetch_add and its insertion, and was returned to no caller.
C12_IdReturnedAfterInsertion ==
    /\ \A t \in Threads :
           (Done(t) /\ IsEstablishment(th[t].op) /\ th[t].status = "Ok")
               => /\ Present(th[t].session_id)
                  /\ SESSIONS[th[t].session_id].tls_context = th[t].socket
    /\ returned \subseteq DOMAIN SESSIONS
    /\ \A t \in Threads :
           (th[t].session_id # NoId /\ ~ Present(th[t].session_id))
               => /\ th[t].pc \in InsertPcs
                  /\ th[t].session_id \notin returned

\* one establishment is returning Ok(id) while another holds an id that is
\* allocated and not yet in the registry
C12_Witness ==
    \E t, u \in Threads :
        /\ Done(t) /\ IsEstablishment(th[t].op) /\ th[t].status = "Ok"
        /\ Present(th[t].session_id)
        /\ th[u].pc \in InsertPcs
        /\ th[u].session_id # NoId
        /\ ~ Present(th[u].session_id)

\* the threads between the lock and the unlock of send_message/receive_message
InIo == { t \in Threads : th[t].pc \in IoPcs }

\* C13: operations on the registry are ordered by the lock, and the dispatch is
\* atomic with the I/O.  At most one thread is between lock and unlock; it
\* holds the lock, and the mode it dispatched on is the mode its session is in;
\* the registry, the modes included, changes only in steps before and after
\* which no thread is between lock and unlock; a send_message writes the frame
\* of the codec of the mode the session is in at the time of the write.
C13_DispatchAtomicWithIo ==
    [][ /\ Cardinality(InIo') <= 1
        /\ \A t \in Threads :
               th'[t].pc \in IoPcs
                   => /\ lock' = t
                      /\ th'[t].arg_id \in DOMAIN SESSIONS'
                      /\ th'[t].mode = SESSIONS'[th'[t].arg_id].encryption_mode
        /\ SESSIONS' # SESSIONS => (InIo = {} /\ InIo' = {})
        /\ \A t \in Threads :
               (th[t].pc = "send_io" /\ Done(t)' /\ th'[t].status = "Ok")
                   => LET s == SESSIONS[th[t].arg_id]
                      IN  net'[s.tls_context].up =
                              Append(net[s.tls_context].up,
                                     SendDispatch(s.encryption_mode, th[t].data)) ]_vars

\* a send_message dispatched in mode Tls and a set_encryption_mode to Plaintext
\* on the same id, called by two threads, both completed: the frame written is
\* whole and of the Tls codec, the session is in mode Plaintext
C13_Witness ==
    \E t, u \in Threads :
        /\ t # u
        /\ Done(t) /\ th[t].op = "send_message" /\ th[t].status = "Ok"
        /\ th[t].mode = "Tls"
        /\ Done(u) /\ th[u].op = "set_encryption_mode" /\ th[u].status = "Ok"
        /\ th[u].arg_id = th[t].arg_id /\ th[u].arg_mode = "Plaintext"
        /\ SESSIONS[th[t].arg_id].encryption_mode = "Plaintext"
        /\ net[th[t].socket].up = << tls_send_message(th[t].data) >>

\* C14: the key-deletion step of from_socket.  The deletion is attempted only
\* by a from_socket whose configuration generation and handshake succeeded,
\* at most once in a call, while no id is allocated and no session inserted
\* for the call; a from_socket whose configuration generation or handshake
\* failed ends without attempting it; a from_socket holds an id only after
\* the attempt.
C14_KeyDeletionAfterHandshakeBeforeId ==
    [][ \A t \in Threads :
          /\ (th'[t].destroy # "none" /\ th'[t].destroy # th[t].destroy)
                 => /\ th[t].pc = "sock_destroy_key"
                    /\ th[t].op = "from_socket"
                    /\ th[t].destroy = "none"
                    /\ th[t].config = "ok"
                    /\ th[t].handshake = "ok"
                    /\ th[t].session_id = NoId
                    /\ th'[t].session_id = NoId
                    /\ ~ EntryFor(t)
                    /\ SESSIONS' = SESSIONS
                    /\ SESSION_COUNTER' = SESSION_COUNTER
          /\ (th'[t].op = "from_socket"
                /\ (th'[t].config = "failed" \/ th'[t].handshake = "failed"))
                 => /\ th'[t].destroy = "none"
                    /\ th'[t].pc = "done"
                    /\ th'[t].status # "Ok"
          /\ (th'[t].op = "from_socket" /\ th'[t].session_id # NoId)
                 => th'[t].destroy # "none" ]_vars

\* one from_socket ended at a failed handshake without an attempt; another
\* attempted the deletion after its handshake and went on to insert its session
C14_Witness ==
    \E t, u \in Threads :
        /\ Done(t) /\ th[t].op = "from_socket" /\ th[t].handshake = "failed"
        /\ th[t].destroy = "none"
        /\ Done(u) /\ th[u].op = "from_socket" /\ th[u].handshake = "ok"
        /\ th[u].destroy = "ok" /\ th[u].status = "Ok"
        /\ Present(th[u].session_id)

\* C15 (as claimed): from_url performs connect, attestation-service
\* initialization, configuration generation, handshake, id allocation and
\* insertion in that order; a step is performed only when the step before it
\* succeeded, and a failed step ends the call with an error.
C15_FromUrlStepsStopAtFailure ==
    \A t \in Threads :
        th[t].op = "from_url"
            => /\ th[t].veraison # "none" => th[t].connect = "ok"
               /\ th[t].config # "none" => th[t].veraison = "ok"
               /\ th[t].handshake # "none" => th[t].config = "ok"
               /\ th[t].session_id # NoId => th[t].handshake = "ok"
               /\ EntryFor(t) => th[t].session_id # NoId
               /\ StepFailed(t) => (Done(t) /\ th[t].status # "Ok")

\* C16: the initial state of a session.  The insertion of an establishment
\* puts in the registry, under the flow's id, a session on the flow's stream
\* in mode Tls; from_url gives it no role context, from_socket a role context
\* with the key handle and the evidence-type list of AttestationListLen
\* entries that its configuration generation yielded.  No step changes the
\* role context of a session that is in the registry.
C16_InitialSessionState ==
    [][ /\ \A t \in Threads :
               (th[t].pc \in InsertPcs /\ Done(t)' /\ th'[t].status = "Ok")
                   => /\ th[t].session_id \in DOMAIN SESSIONS'
                      /\ LET s == SESSIONS'[th[t].session_id]
                         IN  /\ s.tls_context = th[t].socket
                             /\ s.encryption_mode = "Tls"
                             /\ th[t].op = "from_url" => s.responder_context = << >>
                             /\ th[t].op = "from_socket"
                                    => /\ Len(s.responder_context) = 1
                                       /\ s.responder_context[1].key_handle
                                              = KeyHandle(th[t].socket)
                                       /\ Len(s.responder_context[1].client_attestation_type_list)
                                              = AttestationListLen
        /\ \A id \in DOMAIN SESSIONS :
               /\ id \in DOMAIN SESSIONS'
               /\ SESSIONS'[id].responder_context = SESSIONS[id].responder_context ]_vars

\* a session of each flow is in the registry, the initiator's without and the
\* responder's with a role context, the responder's after a switch to Plaintext
C16_Witness ==
    \E id1, id2 \in DOMAIN SESSIONS, t \in Threads :
        /\ SESSIONS[id1].responder_context = << >>
        /\ SESSIONS[id1].encryption_mode = "Tls"
        /\ SESSIONS[id2].responder_context = ResponderContext(SESSIONS[id2].tls_context)
        /\ SESSIONS[id2].encryption_mode = "Plaintext"
        /\ Done(t) /\ th[t].op = "set_encryption_mode" /\ th[t].arg_id = id2

TransportPcs == { "send_lock", "recv_lock", "send_io", "recv_io" }

\* C17: frame conditions.  A successful set_encryption_mode(id, m) changes the
\* encryption_mode of session id to m and nothing else of the registry: the key
\* set, the other fields of the session and every other session are as before,
\* and so are the id counter and every stream.  No step of send_message or
\* receive_message, successful or failed, changes the registry or the counter.
C17_FrameOfModeSwitchAndTransport ==
    [][ \A t \in Threads :
          /\ (th[t].pc = "mode_lock" /\ Done(t)' /\ th'[t].status = "Ok")
                 => /\ SESSIONS' = [SESSIONS EXCEPT
                           ![th'[t].arg_id].encryption_mode = th'[t].arg_mode]
                    /\ SESSION_COUNTER' = SESSION_COUNTER
                    /\ net' = net
          /\ (th[t].pc = "mode_lock" /\ Done(t)' /\ th'[t].status # "Ok")
                 => UNCHANGED << SESSIONS, SESSION_COUNTER, net >>
          /\ (th[t].pc \in TransportPcs /\ th'[t].pc # th[t].pc)
                 => UNCHANGED << SESSIONS, SESSION_COUNTER >> ]_vars

\* a switch to Plaintext succeeded on the session of a responder flow while
\* another session stayed in Tls, and a send_message ended with an I/O error
C17_Witness ==
    \E t, u \in Threads, id \in DOMAIN SESSIONS :
        /\ Done(t) /\ th[t].op = "set_encryption_mode" /\ th[t].status = "Ok"
        /\ th[t].arg_mode = "Plaintext" /\ th[t].arg_id # id
        /\ SESSIONS[th[t].arg_id].encryption_mode = "Plaintext"
        /\ SESSIONS[th[t].arg_id].responder_context # << >>
        /\ SESSIONS[id].encryption_mode = "Tls"
        /\ Done(u) /\ th[u].op = "send_message" /\ th[u].status = "IoError"

\* C18: the registry only grows and holds only allocated ids.  No step takes a
\* key out of the registry; every key is an id the counter has handed out (it
\* is less than the counter, which has not wrapped); there are no more
\* entries than allocations.
C18_RegistryOnlyGrows ==
    [][ /\ DOMAIN SESSIONS \subseteq DOMAIN SESSIONS'
        /\ \A id \in DOMAIN SESSIONS' : id < SESSION_COUNTER'
        /\ Cardinality(DOMAIN SESSIONS') <= SESSION_COUNTER'
        /\ SESSION_COUNTER' >= SESSION_COUNTER ]_vars

\* of two concurrent establishments the one holding the greater id inserted
\* first: id 1 is present while id 0 is allocated and still absent
C18_Witness ==
    \E t \in Threads :
        /\ Present(1)
        /\ ~ Present(0)
        /\ th[t].pc \in InsertPcs
        /\ th[t].session_id = 0

\* ------------------------------------------------- the poisoned registry lock
\* A thread that panics while it holds the guard (inside the codec it called
\* from send_message or receive_message) poisons the mutex: the guard is
\* dropped by the unwinding, and every later lock() yields the poison error.
Poisoned == 0 - 1

\* (mutant) the poison ignored, as by unwrap_or_else(PoisonError::into_inner)
LockResultIntoInner(mutex) == "Ok"

\* SESSIONS.lock().map_err(|_| anyhow!("Could not lock session table"))?
LockResult(mutex) == IF mutex = Poisoned THEN "LockError" ELSE "Ok"

Panic(t) ==
    /\ th[t].pc \in IoPcs
    /\ lock = t
    /\ lock' = Poisoned
    /\ th' = [th EXCEPT ![t].pc = "panicked"]
    /\ UNCHANGED << SESSIONS, SESSION_COUNTER, net, pending, returned, last_mode, used >>

\* lock() on the poisoned mutex: the `?` returns the error at once; the
\* establishment's context, and the socket in it, is dropped with its locals
LockFails(t) ==
    /\ th[t].pc \in LockWaitPcs
    /\ lock = Poisoned
    /\ th' = [th EXCEPT ![t].pc = "done", ![t].status = LockResult(lock)]
    /\ net' = IF th[t].pc \in InsertPcs
              THEN SocketAfter(th[t].socket, LockResult(lock))
              ELSE net
    /\ UNCHANGED << SESSIONS, SESSION_COUNTER, lock, pending, returned, last_mode, used >>

NextPoison ==
    \/ Next
    \/ \E t \in Threads : Panic(t)
    \/ \E t \in Threads : LockFails(t)

SpecPoison == Init /\ [][NextPoison]_vars

\* a thread has terminated abnormally while holding the registry lock
Crashed == \E t \in Threads : th[t].pc = "panicked"

\* C19: lock failure is immediate and permanent.  Once a thread has panicked
\* under the guard the mutex is poisoned and stays so; from then on the
\* registry never changes, no thread enters the I/O of send_message or
\* receive_message or writes to or reads from a stream, and every step of a
\* thread at a lock() ends its call with the lock error.  An establishment
\* that ends so had completed its handshake and allocated its id, and the id is
\* not in the registry.
C19_LockFailurePermanent ==
    [][ /\ Crashed' => lock' = Poisoned
        /\ lock = Poisoned
               => /\ lock' = Poisoned
                  /\ SESSIONS' = SESSIONS
                  /\ \A c \in DOMAIN net :
                         /\ Len(net'[c].up) <= Len(net[c].up)
                         /\ Len(net'[c].down) >= Len(net[c].down)
                  /\ \A t \in Threads :
                         /\ th'[t].pc \notin IoPcs
                         /\ (th[t].pc \in LockWaitPcs /\ th'[t].pc # th[t].pc)
                                => /\ th'[t].pc = "done"
                                   /\ th'[t].status = "LockError"
        /\ \A t \in Threads :
               (th[t].pc \in InsertPcs /\ Done(t)' /\ th'[t].status = "LockError")
                   => /\ th[t].handshake = "ok"
                      /\ th'[t].session_id # NoId
                      /\ th'[t].session_id < SESSION_COUNTER'
                      /\ th'[t].session_id \notin DOMAIN SESSIONS' ]_vars

\* after a panic under the guard an establishment returned the lock error: its
\* handshake completed, its id was allocated and is absent from the registry
C19_Witness ==
    \E t \in Threads :
        /\ Crashed
        /\ lock = Poisoned
        /\ Done(t) /\ IsEstablishment(th[t].op) /\ th[t].status = "LockError"
        /\ th[t].handshake = "ok"
        /\ th[t].session_id # NoId
        /\ ~ Present(th[t].session_id)
        /\ SESSION_COUNTER > th[t].session_id

\* the positions of an establishment before its insertion
UrlWorkPcs == { "url_veraison", "url_config", "url_establish", "url_fetch_add" }

SockWorkPcs == { "sock_establish", "sock_parsec_client", "sock_destroy_key",
                 "sock_fetch_add" }

HandshakePcs == { "url_establish", "sock_establish" }

\* the next step of thread t's establishment can be taken
WorkStepEnabled(t) ==
    \/ ENABLED FromUrlInitVeraison(t)
    \/ ENABLED FromUrlConfig(t)
    \/ ENABLED FromUrlEstablish(t)
    \/ ENABLED FromUrlFetchAdd(t)
    \/ ENABLED FromSocketEstablish(t)
    \/ ENABLED FromSocketParsecClient(t)
    \/ ENABLED FromSocketDestroyKey(t)
    \/ ENABLED FromSocketFetchAdd(t)

\* the step of thread t that takes the registry lock can be taken
LockStepEnabled(t) ==
    \/ ENABLED SetEncryptionMode(t)
    \/ ENABLED SendLock(t)
    \/ ENABLED ReceiveLock(t)
    \/ ENABLED FromUrlInsert(t)
    \/ ENABLED FromSocketInsert(t)

\* C20: establishment works outside the registry lock.  A thread inside
\* from_url or from_socket never holds the lock between two steps: the lock is
\* kept only through the I/O of send_message and receive_message.  The steps
\* of an establishment before its insertion need no lock: they can be taken
\* whoever holds it.  With an establishment waiting in its handshake, every
\* other thread's set_encryption_mode, send_message, receive_message or
\* insertion can take the lock whenever no send or receive holds it.
C20_EstablishmentOutsideLock ==
    /\ \A t \in Threads :
           /\ lock = t => th[t].pc \in IoPcs
           /\ IsEstablishment(th[t].op) => lock # t
           /\ th[t].pc \in UrlWorkPcs \cup SockWorkPcs => WorkStepEnabled(t)
    /\ \A t, u \in Threads :
           (th[t].pc \in HandshakePcs /\ u # t /\ th[u].pc \in LockWaitPcs
              /\ InIo = {})
               => LockStepEnabled(u)

\* while one establishment is still in its handshake, another thread has
\* completed a send_message on a registered session, and the lock is free
C20_Witness ==
    \E t, u \in Threads :
        /\ th[t].pc \in HandshakePcs
        /\ Done(u) /\ th[u].op = "send_message" /\ th[u].status = "Ok"
        /\ Present(th[u].arg_id)
        /\ lock = NoThread

====
